---- MODULE Spec2Model ----
(***************************************************************************)
(* Model of the game server of src/src/index.ts: the in-memory room table  *)
(* and the four socket handlers create_room, join_room, roll_dice and      *)
(* make_move.  Each handler runs to completion (single-threaded event      *)
(* loop), so each is one atomic action.                                    *)
(*                                                                         *)
(* A JavaScript array of arrays boolean[][] is modelled as a function from *)
(* the index pairs <<row, column>> that hold an element to that element;   *)
(* reading an index that holds nothing yields undefined, which is falsy.   *)
(***************************************************************************)
EXTENDS Integers, Sequences, FiniteSets, TLC

\* ---------------------------------------------------------------- bounds
\* Largest board size a create_room intent asks for.
MaxBoardSize == 2

\* Inputs of the intents.
BoardSizes == 1..MaxBoardSize
RoomIds == {"R1"}
Sockets == {"s1"}
Names == {"ann"}

\* ------------------------------------------------------------- constants
\* enum Linha { VERTICAL, HORIZONTAL }
VERTICAL == 0
HORIZONTAL == 1

\* JavaScript null in squares[][] and winner.
null == "null"
\* JavaScript null in diceValue (a roll is never 0).
NoDice == 0

VARIABLES
    rooms,  \* const rooms: Record<string, Room>: room id -> Room
    last    \* the intent handled last, the statement its handler left by
            \* and the number of squares it assigned

vars == <<rooms, last>>

\* ------------------------------------------------------ array semantics
\* grid[row] is an array (not undefined).
HasRow(grid, row) == \E k \in DOMAIN grid : k[1] = row

\* Truthiness of grid[row][column] for a grid of booleans (row exists).
IsDrawn(grid, row, column) ==
    /\ <<row, column>> \in DOMAIN grid
    /\ grid[<<row, column>>]

\* Value of squares[row][column]; undefined reads as falsy like null.
SquareAt(squares, row, column) ==
    IF <<row, column>> \in DOMAIN squares THEN squares[<<row, column>>] ELSE null

\* grid[row][column] = value (an index past the end extends the array).
SetAt(grid, row, column, value) ==
    [k \in DOMAIN grid \cup {<<row, column>>} |->
        IF k = <<row, column>> THEN value ELSE grid[k]]

\* Variant: both line grids are given the size x size shape of squares.
initializeGame_SquareGrids(size) ==
    [ horizontalLines |-> [k \in (0..(size - 1)) \X (0..(size - 1)) |-> FALSE],
      verticalLines   |-> [k \in (0..(size - 1)) \X (0..(size - 1)) |-> FALSE],
      squares         |-> [k \in (0..(size - 1)) \X (0..(size - 1)) |-> null],
      currentPlayer   |-> "A",
      scores          |-> [A |-> 0, B |-> 0],
      movesLeft       |-> 0,
      diceValue       |-> NoDice,
      waitingForRoll  |-> TRUE,
      winner          |-> null ]


\* ------------------------------------------------------- initializeGame
initializeGame(size) ==
    [ horizontalLines |-> [k \in (0..size) \X (0..(size - 1)) |-> FALSE],
      verticalLines   |-> [k \in (0..(size - 1)) \X (0..size) |-> FALSE],
      squares         |-> [k \in (0..(size - 1)) \X (0..(size - 1)) |-> null],
      currentPlayer   |-> "A",
      scores          |-> [A |-> 0, B |-> 0],
      movesLeft       |-> 0,
      diceValue       |-> NoDice,
      waitingForRoll  |-> TRUE,
      winner          |-> null ]

\* ----------------------------------------------------------- make_move
Other(player) == IF player = "A" THEN "B" ELSE "A"


\* Variant: the two already-drawn validations are missing.
Validate_NoDrawnCheck(game, type, row, column) ==
    IF game.waitingForRoll THEN "waitingForRoll"
    ELSE IF game.movesLeft <= 0 THEN "noMovesLeft"
    ELSE IF type = HORIZONTAL /\ ~HasRow(game.horizontalLines, row) THEN "TypeError"
    ELSE IF type # HORIZONTAL /\ ~HasRow(game.verticalLines, row) THEN "TypeError"
    ELSE "apply"

\* Variant: only horizontal lines are validated as already drawn.
Validate_HorizontalOnly(game, type, row, column) ==
    IF game.waitingForRoll THEN "waitingForRoll"
    ELSE IF game.movesLeft <= 0 THEN "noMovesLeft"
    ELSE IF type = HORIZONTAL /\ ~HasRow(game.horizontalLines, row) THEN "TypeError"
    ELSE IF type = HORIZONTAL /\ IsDrawn(game.horizontalLines, row, column) THEN "alreadyDrawn"
    ELSE IF type # HORIZONTAL /\ ~HasRow(game.verticalLines, row) THEN "TypeError"
    ELSE "apply"

\* The validations: the statement that returns, or "apply" when none does.
\* Reading [column] of a row that does not exist throws a TypeError.
Validate(game, type, row, column) ==
    IF game.waitingForRoll THEN "waitingForRoll"
    ELSE IF game.movesLeft <= 0 THEN "noMovesLeft"
    ELSE IF type = HORIZONTAL /\ ~HasRow(game.horizontalLines, row) THEN "TypeError"
    ELSE IF type = HORIZONTAL /\ IsDrawn(game.horizontalLines, row, column) THEN "alreadyDrawn"
    ELSE IF type = VERTICAL /\ ~HasRow(game.verticalLines, row) THEN "TypeError"
    ELSE IF type = VERTICAL /\ IsDrawn(game.verticalLines, row, column) THEN "alreadyDrawn"
    ELSE IF type # HORIZONTAL /\ ~HasRow(game.verticalLines, row) THEN "TypeError"
    ELSE "apply"

\* Marks the line drawn.
ApplyLine(game, type, row, column) ==
    IF type = HORIZONTAL
    THEN [game EXCEPT !.horizontalLines = SetAt(@, row, column, TRUE)]
    ELSE [game EXCEPT !.verticalLines = SetAt(@, row, column, TRUE)]

DecrementMoves(game) == [game EXCEPT !.movesLeft = @ - 1]

\* Variant: the right edge is not looked at.
FourEdges_ThreeEdges(game, r, c) ==
    /\ IsDrawn(game.horizontalLines, r, c)
    /\ IsDrawn(game.horizontalLines, r + 1, c)
    /\ IsDrawn(game.verticalLines, r, c)


\* All four edges of square (r, c) are drawn.
FourEdges(game, r, c) ==
    /\ IsDrawn(game.horizontalLines, r, c)
    /\ IsDrawn(game.horizontalLines, r + 1, c)
    /\ IsDrawn(game.verticalLines, r, c)
    /\ IsDrawn(game.verticalLines, r, c + 1)


\* Variant: the score is incremented but the square's owner is not stored.
checkSquare_Unrecorded(game, r, c) ==
    IF FourEdges(game, r, c) /\ SquareAt(game.squares, r, c) = null
    THEN [game EXCEPT !.scores[game.currentPlayer] = @ + 1]
    ELSE game

checkSquare(game, r, c) ==
    IF FourEdges(game, r, c) /\ SquareAt(game.squares, r, c) = null
    THEN [game EXCEPT !.squares = SetAt(@, r, c, game.currentPlayer),
                      !.scores[game.currentPlayer] = @ + 1]
    ELSE game

\* Variant: the bound of the first check is one too small.
CheckFirst_OffByOne(game, size, type, row, column) ==
    IF type = HORIZONTAL
    THEN IF row < size - 1 THEN checkSquare(game, row, column) ELSE game
    ELSE IF column < size - 1 THEN checkSquare(game, row, column) ELSE game


\* The checks of the squares next to the line, in the order of the code.
CheckFirst(game, size, type, row, column) ==
    IF type = HORIZONTAL
    THEN IF row < size THEN checkSquare(game, row, column) ELSE game
    ELSE IF column < size THEN checkSquare(game, row, column) ELSE game


\* Variant: the square on the other side of the line is not checked.
CheckSecond_Skip(game, size, type, row, column) == game

CheckSecond(game, size, type, row, column) ==
    IF type = HORIZONTAL
    THEN IF row > 0 THEN checkSquare(game, row - 1, column) ELSE game
    ELSE IF column > 0 THEN checkSquare(game, row, column - 1) ELSE game


\* Variant: every square of the board is rescanned and each closed one is
\* given to the current player, who is credited with the newly closed ones.
CheckCandidates_Rescan(game, size, type, row, column) ==
    LET closed == {k \in DOMAIN game.squares : FourEdges(game, k[1], k[2])}
        fresh == {k \in closed : game.squares[k] = null}
    IN  [game EXCEPT !.squares = [k \in DOMAIN @ |->
                                    IF k \in closed THEN game.currentPlayer ELSE @[k]],
                     !.scores[game.currentPlayer] = @ + Cardinality(fresh)]

CheckCandidates(game, size, type, row, column) ==
    CheckSecond(CheckFirst(game, size, type, row, column), size, type, row, column)


\* Variant: the turn switches without clearing diceValue.
SwitchTurn_KeepDice(game) ==
    IF game.movesLeft = 0
    THEN [game EXCEPT !.currentPlayer = Other(@),
                      !.waitingForRoll = TRUE]
    ELSE game

SwitchTurn(game) ==
    IF game.movesLeft = 0
    THEN [game EXCEPT !.currentPlayer = Other(@),
                      !.waitingForRoll = TRUE,
                      !.diceValue = NoDice]
    ELSE game

\* Variant: the two comparisons are the wrong way round.
WinnerOf_Swapped(scores) ==
    IF scores.A < scores.B THEN "A"
    ELSE IF scores.B < scores.A THEN "B" ELSE "Draw"


WinnerOf(scores) ==
    IF scores.A > scores.B THEN "A"
    ELSE IF scores.B > scores.A THEN "B" ELSE "Draw"

TotalScore(game) == game.scores.A + game.scores.B


\* Variant: the winner is set without forcing movesLeft and waitingForRoll.
EndOfGame_NoForce(game, size) ==
    IF TotalScore(game) = size * size
    THEN [game EXCEPT !.winner = WinnerOf(game.scores)]
    ELSE game

EndOfGame(game, size) ==
    IF TotalScore(game) = size * size
    THEN [game EXCEPT !.movesLeft = 0,
                      !.waitingForRoll = FALSE,
                      !.winner = WinnerOf(game.scores)]
    ELSE game

\* Variant: a line that closes a square does not cost a move.
MoveResult_Bonus(game, size, type, row, column) ==
    LET checked == CheckCandidates(ApplyLine(game, type, row, column),
                                   size, type, row, column)
    IN  EndOfGame(
            SwitchTurn(IF TotalScore(checked) > TotalScore(game)
                       THEN checked
                       ELSE DecrementMoves(checked)),
            size)


\* The game state an accepted move leaves.
MoveResult(game, size, type, row, column) ==
    EndOfGame(
        SwitchTurn(
            CheckCandidates(DecrementMoves(ApplyLine(game, type, row, column)),
                            size, type, row, column)),
        size)

\* The room after make_move's handler, whatever its outcome.
MakeMove(room, type, row, column) ==
    IF Validate(room.gameState, type, row, column) = "apply"
    THEN [room EXCEPT !.gameState = MoveResult(@, room.boardSize, type, row, column)]
    ELSE room


\* Variant: a finished game is not rolled for.
RollDice_GuardWinner(room, rolledNumber) ==
    IF room.gameState.winner # null
    THEN room
    ELSE [room EXCEPT !.gameState.diceValue = rolledNumber,
                      !.gameState.movesLeft = rolledNumber,
                      !.gameState.waitingForRoll = FALSE]


\* Variant: the roll does not clear waitingForRoll.
RollDice_KeepWaiting(room, rolledNumber) ==
    [room EXCEPT !.gameState.diceValue = rolledNumber,
                 !.gameState.movesLeft = rolledNumber]

\* ------------------------------------------------------------ roll_dice
RollDice(room, rolledNumber) ==
    [room EXCEPT !.gameState.diceValue = rolledNumber,
                 !.gameState.movesLeft = rolledNumber,
                 !.gameState.waitingForRoll = FALSE]


\* Variant: the "+ 1" of the roll is missing.
Rolls_ZeroBased(boardSize) == 0..(boardSize - 1)

\* Math.floor(Math.random() * boardSize) + 1
Rolls(boardSize) == 1..boardSize

\* -------------------------------------------------------------- handlers
Init ==
    /\ rooms = << >>
    /\ last = [op |-> "none", roomId |-> "", outcome |-> "none", closed |-> 0]

create_room(socket, roomId, name, boardSize) ==
    /\ rooms' = [id \in DOMAIN rooms \cup {roomId} |->
                    IF id = roomId
                    THEN [ id |-> roomId,
                           boardSize |-> boardSize,
                           players |-> << [socketId |-> socket, playerType |-> "A", name |-> name] >>,
                           gameState |-> initializeGame(boardSize) ]
                    ELSE rooms[id]]
    /\ last' = [op |-> "create_room", roomId |-> roomId, outcome |-> "room_created",
                closed |-> 0]

\* Variant: the room is full only above two players.
JoinOutcome_OffByOne(roomId) ==
    IF roomId \notin DOMAIN rooms THEN "notFound"
    ELSE IF Len(rooms[roomId].players) > 2 THEN "full"
    ELSE "game_start"


JoinOutcome(roomId) ==
    IF roomId \notin DOMAIN rooms THEN "notFound"
    ELSE IF Len(rooms[roomId].players) >= 2 THEN "full"
    ELSE "game_start"

\* Variant: the joining player is given role A.
join_room_AsA(socket, roomId, name) ==
    /\ rooms' = IF JoinOutcome(roomId) = "game_start"
                THEN [rooms EXCEPT ![roomId].players =
                        Append(@, [socketId |-> socket, playerType |-> "A", name |-> name])]
                ELSE rooms
    /\ last' = [op |-> "join_room", roomId |-> roomId, outcome |-> JoinOutcome(roomId),
                closed |-> 0]


join_room(socket, roomId, name) ==
    /\ rooms' = IF JoinOutcome(roomId) = "game_start"
                THEN [rooms EXCEPT ![roomId].players =
                        Append(@, [socketId |-> socket, playerType |-> "B", name |-> name])]
                ELSE rooms
    /\ last' = [op |-> "join_room", roomId |-> roomId, outcome |-> JoinOutcome(roomId),
                closed |-> 0]

roll_dice(roomId, rolledNumber) ==
    /\ roomId \in DOMAIN rooms => rolledNumber \in Rolls(rooms[roomId].boardSize)
    /\ rooms' = IF roomId \in DOMAIN rooms
                THEN [rooms EXCEPT ![roomId] = RollDice(@, rolledNumber)]
                ELSE rooms
    /\ last' = [op |-> "roll_dice", roomId |-> roomId,
                outcome |-> IF roomId \in DOMAIN rooms THEN "update_game" ELSE "noRoom",
                closed |-> 0]

make_move(roomId, type, row, column) ==
    /\ rooms' = IF roomId \in DOMAIN rooms
                THEN [rooms EXCEPT ![roomId] = MakeMove(@, type, row, column)]
                ELSE rooms
    /\ last' = [op |-> "make_move", roomId |-> roomId,
                outcome |-> IF roomId \in DOMAIN rooms
                            THEN Validate(rooms[roomId].gameState, type, row, column)
                            ELSE "noRoom",
                closed |-> IF roomId \in DOMAIN rooms
                           THEN TotalScore(rooms'[roomId].gameState)
                                    - TotalScore(rooms[roomId].gameState)
                           ELSE 0]

\* ---------------------------------------------------------------- inputs
\* The line addresses of a board: horizontal (row 0..N, column 0..N-1),
\* vertical (row 0..N-1, column 0..N).
InRange(size, type, row, column) ==
    IF type = HORIZONTAL
    THEN row \in 0..size /\ column \in 0..(size - 1)
    ELSE row \in 0..(size - 1) /\ column \in 0..size

Types == {VERTICAL, HORIZONTAL}
\* Candidate outcomes of the random draw; roll_dice keeps those of Rolls.
Dice == 0..(MaxBoardSize + 1)
Coords == 0..MaxBoardSize

\* The moves a well-behaved client of the room sends (any, for an unknown
\* room): <<type, row, column>> with the line inside the board.
ValidMoves(roomId) ==
    {m \in Types \X Coords \X Coords :
        roomId \in DOMAIN rooms => InRange(rooms[roomId].boardSize, m[1], m[2], m[3])}

Next ==
    \/ \E s \in Sockets, id \in RoomIds, n \in Names, b \in BoardSizes :
          create_room(s, id, n, b)
    \/ \E s \in Sockets, id \in RoomIds, n \in Names :
          join_room(s, id, n)
    \/ \E id \in RoomIds, d \in Dice :
          roll_dice(id, d)
    \/ \E id \in RoomIds : \E m \in ValidMoves(id) :
          make_move(id, m[1], m[2], m[3])

Spec == Init /\ [][Next]_vars

\* ------------------------------------------------- the room registry
\* Several rooms and several connections, on the smallest board.  The id
\* of create_room is a slice of a random UUID: any id of the id space.
RegistryIds == {"R1", "R2"}
RegistrySockets == {"s1", "s2"}
RegistrySizes == {1}

NextRegistry ==
    \/ \E s \in RegistrySockets, id \in RegistryIds, n \in Names, b \in RegistrySizes :
          create_room(s, id, n, b)
    \/ \E s \in RegistrySockets, id \in RegistryIds, n \in Names :
          join_room(s, id, n)
    \/ \E id \in RegistryIds, d \in Dice :
          roll_dice(id, d)
    \/ \E id \in RegistryIds : \E m \in ValidMoves(id) :
          make_move(id, m[1], m[2], m[3])

SpecRegistry == Init /\ [][NextRegistry]_vars

\* ------------------------------------------- unvalidated coordinates
\* A client that sends any line type, row and column to a room of the
\* smallest board: nothing in make_move compares them with boardSize.
AnyTypes == {VERTICAL, HORIZONTAL, HORIZONTAL + 1}
AnyCoords == (0 - 1)..(1 + 1)
UncheckedSizes == {1}

NextUnchecked ==
    \/ \E s \in Sockets, id \in RoomIds, n \in Names, b \in UncheckedSizes :
          create_room(s, id, n, b)
    \/ \E s \in Sockets, id \in RoomIds, n \in Names :
          join_room(s, id, n)
    \/ \E id \in RoomIds, d \in Dice :
          roll_dice(id, d)
    \/ \E id \in RoomIds, t \in AnyTypes, r \in AnyCoords, c \in AnyCoords :
          make_move(id, t, r, c)

SpecUnchecked == Init /\ [][NextUnchecked]_vars

\* ==================================================================
\* Properties
\* ==================================================================
\* A room is the Room object a create_room intent stores; a create_room
\* that draws the id of an existing room stores a new room, so the steps
\* "of a room" are those of join_room, roll_dice and make_move.
Game(id) == rooms[id].gameState
StepOf(id) == id \in DOMAIN rooms /\ last'.op # "create_room"
Accepted(id) ==
    /\ StepOf(id)
    /\ last'.op = "make_move"
    /\ last'.roomId = id
    /\ last'.outcome = "apply"
AfterAccepted == last.op = "make_move" /\ last.outcome = "apply"
Board(g) == <<g.horizontalLines, g.verticalLines, g.squares, g.scores, g.winner>>
DrawnLines(g) ==
    Cardinality({k \in DOMAIN g.horizontalLines : g.horizontalLines[k]})
        + Cardinality({k \in DOMAIN g.verticalLines : g.verticalLines[k]})
OwnedBy(g, p) == {k \in DOMAIN g.squares : g.squares[k] = p}
\* Square k = <<r, c>> of the grid has its four edges drawn.
Closed(g, k) ==
    /\ g.horizontalLines[<<k[1], k[2]>>]
    /\ g.horizontalLines[<<k[1] + 1, k[2]>>]
    /\ g.verticalLines[<<k[1], k[2]>>]
    /\ g.verticalLines[<<k[1], k[2] + 1>>]

\* C1: once a room's winner is set, no roll_dice or in-range make_move
\* step is an accepted move, and each leaves the room's lines, squares,
\* scores and winner as they were.
C1_Terminal ==
    [][\A id \in DOMAIN rooms :
        (Game(id).winner # null /\ StepOf(id) /\ last'.op \in {"roll_dice", "make_move"})
            => /\ ~Accepted(id)
               /\ Board(rooms'[id].gameState) = Board(Game(id))]_vars

\* C1 witness: the game is over, a roll has handed out moves again and a
\* move was then asked for and refused.
C1_Witness ==
    /\ last.op = "make_move" /\ last.outcome = "alreadyDrawn"
    /\ Game(last.roomId).winner # null
    /\ Game(last.roomId).movesLeft > 0

\* C2: after an accepted make_move, winner is set iff scores.A + scores.B
\* = N*N; it is then A, B or Draw by strict comparison of the scores, and
\* movesLeft = 0 and waitingForRoll = false.
C2_EndOfGame ==
    AfterAccepted =>
        LET g == Game(last.roomId)
            n == rooms[last.roomId].boardSize
        IN  /\ (g.winner # null) <=> (g.scores.A + g.scores.B = n * n)
            /\ g.winner # null =>
                /\ g.scores.A > g.scores.B => g.winner = "A"
                /\ g.scores.B > g.scores.A => g.winner = "B"
                /\ g.scores.A = g.scores.B => g.winner = "Draw"
                /\ g.movesLeft = 0
                /\ g.waitingForRoll = FALSE

\* C2 witness: a move made with moves remaining (the turn did not switch,
\* the dice is still shown) ended the game.
C2_Witness ==
    /\ AfterAccepted
    /\ Game(last.roomId).winner # null
    /\ Game(last.roomId).diceValue # NoDice

\* C3: in every room scores.A is the number of squares A owns and scores.B
\* the number B owns, so their sum is the number of claimed squares.
C3_ScoresCountSquares ==
    \A id \in DOMAIN rooms :
        /\ Game(id).scores.A = Cardinality(OwnedBy(Game(id), "A"))
        /\ Game(id).scores.B = Cardinality(OwnedBy(Game(id), "B"))
        /\ Game(id).scores.A + Game(id).scores.B
              = Cardinality({k \in DOMAIN Game(id).squares : Game(id).squares[k] # null})

\* C3 witness: both players own squares.
C3_Witness ==
    \E id \in DOMAIN rooms :
        /\ Game(id).scores.A >= 1
        /\ Game(id).scores.B >= 1
        /\ Game(id).winner = null

\* The line (type, row, column), in range, is already drawn.
LineIsTrue(g, type, row, column) ==
    IF type = HORIZONTAL THEN g.horizontalLines[<<row, column>>]
    ELSE g.verticalLines[<<row, column>>]

\* C4: a make_move for an in-range line is refused and leaves the room
\* table (so every field of the GameState) unchanged when waitingForRoll
\* is true, or movesLeft <= 0, or the line is already drawn.  (Written as
\* "the step is no make_move, or changes nothing, or is no such make_move",
\* which is the same as "every such make_move changes nothing".)
C4_RejectedNoOp ==
    [][\/ last'.op # "make_move"
       \/ /\ rooms' = rooms
          /\ last'.outcome \in {"waitingForRoll", "noMovesLeft", "alreadyDrawn"}
       \/ \A id \in DOMAIN rooms, t \in Types, r \in Coords, c \in Coords :
            ~ ( /\ InRange(rooms[id].boardSize, t, r, c)
                /\ \/ Game(id).waitingForRoll
                   \/ Game(id).movesLeft <= 0
                   \/ LineIsTrue(Game(id), t, r, c)
                /\ make_move(id, t, r, c) )]_vars

\* C4 witness: a drawn line was asked for again while the turn had moves
\* to spend.
C4_Witness ==
    /\ last.op = "make_move" /\ last.outcome = "alreadyDrawn"
    /\ Game(last.roomId).winner = null
    /\ Game(last.roomId).movesLeft > 0
    /\ ~Game(last.roomId).waitingForRoll
\* C5 as stated: an accepted make_move flips currentPlayer iff it spends
\* the last move of the turn, and then the resulting state has movesLeft
\* = 0, waitingForRoll = true and diceValue absent; no other step of the
\* room changes currentPlayer.
C5_Original ==
    [][\A id \in DOMAIN rooms :
        StepOf(id) =>
            LET g == Game(id)
                h == rooms'[id].gameState
            IN  IF Accepted(id)
                THEN /\ (h.currentPlayer # g.currentPlayer) <=> (g.movesLeft = 1)
                     /\ g.movesLeft = 1 =>
                          /\ h.movesLeft = 0
                          /\ h.waitingForRoll = TRUE
                          /\ h.diceValue = NoDice
                ELSE h.currentPlayer = g.currentPlayer]_vars

\* C5 amended: an accepted make_move flips currentPlayer iff it spends the
\* last move of the turn (movesLeft was 1), and then the resulting state
\* has movesLeft = 0, diceValue absent and waitingForRoll = true unless
\* the move ends the game, which leaves waitingForRoll = false; a move
\* that ends the game with moves remaining forces movesLeft to 0 without
\* flipping; no other step of the room changes currentPlayer.
C5_TurnSwitch ==
    [][\A id \in DOMAIN rooms :
        StepOf(id) =>
            LET g == Game(id)
                h == rooms'[id].gameState
            IN  IF Accepted(id)
                THEN /\ (h.currentPlayer # g.currentPlayer) <=> (g.movesLeft = 1)
                     /\ g.movesLeft = 1 =>
                          /\ h.movesLeft = 0
                          /\ h.diceValue = NoDice
                          /\ h.waitingForRoll <=> (h.winner = null)
                     /\ g.movesLeft > 1 =>
                          /\ h.diceValue = g.diceValue
                          /\ h.waitingForRoll = FALSE
                          /\ h.movesLeft = IF h.winner = null THEN g.movesLeft - 1 ELSE 0
                ELSE h.currentPlayer = g.currentPlayer]_vars

\* C5 witness: the last move of a turn ended the game: the turn switched
\* (diceValue cleared) and waitingForRoll is false.
C5_Witness ==
    /\ AfterAccepted
    /\ Game(last.roomId).winner # null
    /\ Game(last.roomId).diceValue = NoDice
    /\ ~Game(last.roomId).waitingForRoll

\* C6 as stated: in every state in which winner is set, movesLeft is 0 and
\* waitingForRoll is false.
C6_Original ==
    \A id \in DOMAIN rooms :
        Game(id).winner # null =>
            /\ Game(id).movesLeft = 0
            /\ Game(id).waitingForRoll = FALSE

\* C7: movesLeft is in 0..N; while winner is absent either waitingForRoll
\* and movesLeft = 0, or not waitingForRoll and movesLeft > 0; and
\* waitingForRoll never holds together with movesLeft > 0.
C7_Phases ==
    \A id \in DOMAIN rooms :
        /\ Game(id).movesLeft \in 0..rooms[id].boardSize
        /\ Game(id).winner = null =>
              \/ Game(id).waitingForRoll /\ Game(id).movesLeft = 0
              \/ ~Game(id).waitingForRoll /\ Game(id).movesLeft > 0
        /\ ~(Game(id).waitingForRoll /\ Game(id).movesLeft > 0)

\* C7 witness: mid-turn, after a move that left moves to spend.
C7_Witness ==
    /\ AfterAccepted
    /\ Game(last.roomId).winner = null
    /\ ~Game(last.roomId).waitingForRoll
    /\ Game(last.roomId).movesLeft > 0

\* C8: across every step of a room, a drawn line stays drawn and a claimed
\* square keeps its owner.
C8_BoardOnlyGrows ==
    [][\A id \in DOMAIN rooms :
        StepOf(id) =>
            LET g == Game(id)
                h == rooms'[id].gameState
            IN  /\ \A k \in DOMAIN g.horizontalLines :
                     g.horizontalLines[k] =>
                        k \in DOMAIN h.horizontalLines /\ h.horizontalLines[k]
                /\ \A k \in DOMAIN g.verticalLines :
                     g.verticalLines[k] =>
                        k \in DOMAIN h.verticalLines /\ h.verticalLines[k]
                /\ \A k \in DOMAIN g.squares :
                     g.squares[k] # null =>
                        k \in DOMAIN h.squares /\ h.squares[k] = g.squares[k]]_vars

\* C8 witness: a line was drawn on a board that already had a claimed
\* square, closing nothing.
C8_Witness ==
    /\ AfterAccepted
    /\ last.closed = 0
    /\ Game(last.roomId).scores.A + Game(last.roomId).scores.B >= 1

\* C9: an accepted make_move adds to the score of the player whose turn it
\* was the number (0, 1 or 2) of squares the line closed, gives exactly
\* those squares to that player, and leaves the other score and every
\* other square as they were.
C9_Scoring ==
    [][\A id \in DOMAIN rooms :
        Accepted(id) =>
            LET g == Game(id)
                h == rooms'[id].gameState
                p == g.currentPlayer
                q == IF p = "A" THEN "B" ELSE "A"
                newly == {k \in DOMAIN g.squares : Closed(h, k) /\ ~Closed(g, k)}
            IN  /\ Cardinality(newly) \in 0..2
                /\ h.scores[p] = g.scores[p] + Cardinality(newly)
                /\ h.scores[q] = g.scores[q]
                /\ DOMAIN h.squares = DOMAIN g.squares
                /\ \A k \in DOMAIN g.squares :
                     h.squares[k] = IF k \in newly THEN p ELSE g.squares[k]
                /\ \A k \in newly : g.squares[k] = null]_vars

\* C9 witness: one line closed two squares.
C9_Witness ==
    /\ AfterAccepted
    /\ last.closed = 2

\* C10: after a roll_dice against an existing room of board size N,
\* diceValue is in 1..N, movesLeft = diceValue and waitingForRoll is false.
C10_Roll ==
    (last.op = "roll_dice" /\ last.roomId \in DOMAIN rooms) =>
        /\ Game(last.roomId).diceValue \in 1..rooms[last.roomId].boardSize
        /\ Game(last.roomId).movesLeft = Game(last.roomId).diceValue
        /\ Game(last.roomId).waitingForRoll = FALSE

\* C10 witness: a roll of N on a board of size N > 1.
C10_Witness ==
    /\ last.op = "roll_dice" /\ last.roomId \in DOMAIN rooms
    /\ rooms[last.roomId].boardSize > 1
    /\ Game(last.roomId).diceValue = rooms[last.roomId].boardSize

\* C11: a join_room for an id that names no room ends with RoomNotFound and
\* one for a room that has two players with RoomFull; neither changes the
\* room table (no player list, no GameState, no new room).
C11_JoinErrors ==
    [][last'.op = "join_room" =>
        LET id == last'.roomId
        IN  /\ id \notin DOMAIN rooms =>
                 /\ last'.outcome = "notFound"
                 /\ rooms' = rooms
            /\ (id \in DOMAIN rooms /\ Len(rooms[id].players) = 2) =>
                 /\ last'.outcome = "full"
                 /\ rooms' = rooms]_vars

\* C11 witness: a join was refused as full while another room exists.
C11_Witness ==
    /\ last.op = "join_room" /\ last.outcome = "full"
    /\ Cardinality(DOMAIN rooms) = 2

\* C12 as stated: the id of a create_room names no existing room, and the
\* step adds one room and leaves every existing room as it was.
C12_Original ==
    [][last'.op = "create_room" =>
        /\ last'.roomId \notin DOMAIN rooms
        /\ DOMAIN rooms' = DOMAIN rooms \cup {last'.roomId}
        /\ \A id \in DOMAIN rooms : rooms'[id] = rooms[id]]_vars

\* C13: on a board of size 1 every roll gives movesLeft = 1; each of the
\* first three accepted moves closes no square and switches the turn; the
\* fourth closes square (0,0), gives it to the player whose turn it was
\* and sets winner to that player.
C13_SizeOne ==
    [][\A id \in DOMAIN rooms :
        (StepOf(id) /\ rooms[id].boardSize = 1 /\ last'.roomId = id) =>
            LET g == Game(id)
                h == rooms'[id].gameState
            IN  /\ last'.op = "roll_dice" => h.movesLeft = 1
                /\ (Accepted(id) /\ DrawnLines(g) < 3) =>
                     /\ h.squares[<<0, 0>>] = null
                     /\ h.scores = [A |-> 0, B |-> 0]
                     /\ h.currentPlayer # g.currentPlayer
                     /\ h.waitingForRoll
                     /\ h.winner = null
                /\ (Accepted(id) /\ DrawnLines(g) >= 3) =>
                     /\ DrawnLines(g) = 3
                     /\ DrawnLines(h) = 4
                     /\ h.squares[<<0, 0>>] = g.currentPlayer
                     /\ h.scores[g.currentPlayer] = 1
                     /\ h.winner = g.currentPlayer]_vars

\* C13 witness: the fourth edge of a size-1 board was drawn and its drawer
\* has won.
C13_Witness ==
    /\ AfterAccepted
    /\ rooms[last.roomId].boardSize = 1
    /\ last.closed = 1
    /\ Game(last.roomId).winner \in {"A", "B"}

\* C14: the room a create_room stores has (N+1) x N horizontal and
\* N x (N+1) vertical line slots (N(N+1) each), all false, N*N unclaimed
\* squares, zero scores, currentPlayer A, movesLeft 0, no diceValue,
\* waitingForRoll true and no winner.
C14_Initialize ==
    last.op = "create_room" =>
        LET n == rooms[last.roomId].boardSize
            g == Game(last.roomId)
        IN  /\ DOMAIN g.horizontalLines = (0..n) \X (0..(n - 1))
            /\ DOMAIN g.verticalLines = (0..(n - 1)) \X (0..n)
            /\ Cardinality(DOMAIN g.horizontalLines) = n * (n + 1)
            /\ Cardinality(DOMAIN g.verticalLines) = n * (n + 1)
            /\ \A k \in DOMAIN g.horizontalLines : g.horizontalLines[k] = FALSE
            /\ \A k \in DOMAIN g.verticalLines : g.verticalLines[k] = FALSE
            /\ DOMAIN g.squares = (0..(n - 1)) \X (0..(n - 1))
            /\ \A k \in DOMAIN g.squares : g.squares[k] = null
            /\ g.scores.A = 0 /\ g.scores.B = 0
            /\ g.currentPlayer = "A"
            /\ g.movesLeft = 0
            /\ g.diceValue = NoDice
            /\ g.waitingForRoll = TRUE
            /\ g.winner = null

\* C14 witness: a room of board size 2 has just been created.
C14_Witness ==
    /\ last.op = "create_room"
    /\ rooms[last.roomId].boardSize = 2

\* C15: every room has one or two players, the first of role A and the
\* second of role B; a successful join_room appends one player of role B
\* and leaves the GameState and the board size of the room unchanged.
C15_PlayersOk ==
    \A id \in DOMAIN rooms :
        /\ Len(rooms[id].players) \in 1..2
        /\ rooms[id].players[1].playerType = "A"
        /\ Len(rooms[id].players) = 2 => rooms[id].players[2].playerType = "B"

C15_Players ==
    /\ []C15_PlayersOk
    /\ [][(last'.op = "join_room" /\ last'.outcome = "game_start") =>
            LET id == last'.roomId
            IN  /\ Len(rooms'[id].players) = Len(rooms[id].players) + 1
                /\ SubSeq(rooms'[id].players, 1, Len(rooms[id].players)) = rooms[id].players
                /\ rooms'[id].players[Len(rooms'[id].players)].playerType = "B"
                /\ rooms'[id].gameState = rooms[id].gameState
                /\ rooms'[id].boardSize = rooms[id].boardSize
                /\ \A o \in DOMAIN rooms \ {id} : rooms'[o] = rooms[o]]_vars

\* C15 witness: a second player has joined a game in progress.
C15_Witness ==
    /\ last.op = "join_room" /\ last.outcome = "game_start"
    /\ Len(rooms[last.roomId].players) = 2
    /\ DrawnLines(Game(last.roomId)) >= 1

\* C16: with in-range moves, a square is claimed if and only if its four
\* edges are drawn.
C16_ClaimedIffClosed ==
    \A id \in DOMAIN rooms :
        \A k \in DOMAIN Game(id).squares :
            (Game(id).squares[k] # null) <=> Closed(Game(id), k)

\* C16 witness: a line closed one square of a board on which another
\* square is still open.
C16_Witness ==
    /\ AfterAccepted
    /\ last.closed = 1
    /\ \E k \in DOMAIN Game(last.roomId).squares : ~Closed(Game(last.roomId), k)

\* C17: an accepted make_move that does not end the game leaves movesLeft
\* exactly one lower, whether it closed zero, one or two squares.
C17_NoBonusMove ==
    [][\A id \in DOMAIN rooms :
        (Accepted(id) /\ rooms'[id].gameState.winner = null) =>
            /\ rooms'[id].gameState.movesLeft = Game(id).movesLeft - 1
            /\ last'.closed \in 0..2]_vars

\* C17 witness: a line closed a square, the game goes on and the turn has
\* one move less to spend.
C17_Witness ==
    /\ AfterAccepted
    /\ last.closed >= 1
    /\ Game(last.roomId).winner = null
    /\ Game(last.roomId).movesLeft >= 1
    /\ Game(last.roomId).movesLeft < Game(last.roomId).diceValue

\* C18: a roll_dice for an existing room rolls whatever the phase (also
\* when winner is set) and changes only diceValue, movesLeft and
\* waitingForRoll of that room; a roll_dice for an unknown id changes
\* nothing.
C18_RollFrame ==
    [][last'.op = "roll_dice" =>
        LET id == last'.roomId
        IN  IF id \in DOMAIN rooms
            THEN LET h == rooms'[id].gameState
                 IN  /\ h.diceValue \in 1..rooms[id].boardSize
                     /\ h.movesLeft = h.diceValue
                     /\ h.waitingForRoll = FALSE
                     /\ rooms' = [rooms EXCEPT
                                    ![id].gameState.diceValue = h.diceValue,
                                    ![id].gameState.movesLeft = h.movesLeft,
                                    ![id].gameState.waitingForRoll = h.waitingForRoll]
            ELSE rooms' = rooms]_vars

\* C18 witness: a roll was made for a finished game.
C18_Witness ==
    /\ last.op = "roll_dice" /\ last.roomId \in DOMAIN rooms
    /\ Game(last.roomId).winner # null
    /\ Game(last.roomId).movesLeft >= 1

\* C19 as stated: a make_move whose line is outside the grids of the board
\* (or whose type is neither HORIZONTAL nor VERTICAL) leaves the room table
\* unchanged.  (Written as "the step is no make_move, or changes nothing,
\* or is no such make_move".)
C19_Original ==
    [][\/ last'.op # "make_move"
       \/ rooms' = rooms
       \/ \A id \in DOMAIN rooms, t \in AnyTypes, r \in AnyCoords, c \in AnyCoords :
            ~ ( /\ \/ t \notin Types
                   \/ ~InRange(rooms[id].boardSize, t, r, c)
                /\ make_move(id, t, r, c) )]_vars

\* C20: with in-range moves, winner is set if and only if all 2N(N+1)
\* lines are drawn, and never more lines are drawn than that.
C20_WinnerIffAllDrawn ==
    \A id \in DOMAIN rooms :
        LET n == rooms[id].boardSize
        IN  /\ (Game(id).winner # null) <=> (DrawnLines(Game(id)) = 2 * n * (n + 1))
            /\ DrawnLines(Game(id)) <= 2 * n * (n + 1)

\* C20 witness: a game on the 2 x 2 board is over.
C20_Witness ==
    \E id \in DOMAIN rooms :
        /\ rooms[id].boardSize = 2
        /\ Game(id).winner # null
====
